---- MODULE Spec2Model ----
(***************************************************************************)
(* State-machine model of the finance-tracker dashboard client             *)
(* (legacy-flask/static/script.js): the FinanceTracker class (init,        *)
(* reloadData, the five view loaders, chart and calendar rendering) and    *)
(* the transaction-entry form (loadCategories, the category change         *)
(* handler, the submit handler).                                           *)
(*                                                                         *)
(* JavaScript runs each handler to its next await without interruption,    *)
(* so one action is one such run: from the settling of the awaited         *)
(* request to the issue of the next one.  fetch(...) followed by           *)
(* response.json() is one settling: no state is written between the two.   *)
(* The page's elements (tiles, canvases, grid, form controls) are present. *)
(***************************************************************************)
EXTENDS Integers, Sequences, FiniteSets, TLC

VARIABLES
    page,               \* "loading" until DOMContentLoaded has run, then "ready"
    now,                \* the viewer's local calendar month: [year, month], month 0..11
    tz,                 \* the viewer's offset from UTC, in minutes (local = UTC + tz)
    requests,           \* every HTTP request issued so far
    runPc,              \* per init run: the await it is suspended at
    reloadPc,           \* per reloadData call: the await it is suspended at
    reloadResponse,     \* per reloadData call: its local `response`
    tiles,              \* text of the four summary tiles
    charts,             \* this.charts: canvas id -> chart instance (or NoChart)
    chartInstances,     \* every Chart object constructed so far
    calendarGrid,       \* children of #calendar-grid
    calendarEvents,     \* the `events` argument of the last renderCalendar call
    calendarRenders,    \* number of renderCalendar calls so far (saturating)
    currentMonthLabel,  \* text of #current-month
    recentTransactions, \* content of #recent-transactions
    banners,            \* the .error divs at the top of .container, newest first
    categoriesPc,       \* loadCategories: "idle", "await" or "done"
    categoryOptions,    \* option values of the #category select, in order
    form,               \* values of the form controls
    submitBtn,          \* #submitBtn: [disabled, innerHTML]
    message,            \* #message: [text, className, show]
    timers,             \* which showMessage timeouts are pending: [show, hide]
    submitPc,           \* submit handler: "idle" or "await"
    appendBody,         \* the body of the last POST /append
    lastSettled         \* how the last settled POST /append ended ("none" before any)

dashVars == <<requests, runPc, reloadPc, reloadResponse, tiles, charts, chartInstances,
              recentTransactions, banners>>
calVars == <<calendarGrid, calendarEvents, calendarRenders, currentMonthLabel>>
formVars == <<categoriesPc, categoryOptions, form, submitBtn, message, timers, submitPc,
              appendBody, lastSettled>>
envVars == <<page, now, tz>>
vars == <<envVars, dashVars, calVars, formVars>>

-----------------------------------------------------------------------------
(* Bounds *)

MaxReloads == 1          \* reloadData calls modelled (each may start one more init run)
MaxRenders == 2          \* calendarRenders saturates here
MaxOptions == 4          \* options the category select may grow to

Runs == 0..MaxReloads    \* run 0 is the constructor's init; run r is reload r's
Reloads == 1..MaxReloads

-----------------------------------------------------------------------------
(* Numbers and text *)

Abs(x) == IF x < 0 THEN -x ELSE x

\* The decimal text of a number held in cents: an optional minus sign, the whole
\* part and the two-digit fraction ("-42.50" is [minus |-> TRUE, whole |-> 42,
\* frac |-> 50]).
toFixed(x) ==
    [minus |-> x < 0, whole |-> Abs(x) \div 100, frac |-> Abs(x) % 100, decimals |-> 2]

\* String(x): the shortest decimal text of the number ("42.5", "-3", "0").
NumberString(x) ==
    LET f == Abs(x) % 100
    IN  [minus |-> x < 0, whole |-> Abs(x) \div 100, frac |-> f,
         decimals |-> IF f = 0 THEN 0 ELSE IF f % 10 = 0 THEN 1 ELSE 2]

\* A JSON field that may be absent: [present, v].  `f || 0` is 0 when the field
\* is absent or zero.
Field(v) == [present |-> TRUE, v |-> v]
Missing == [present |-> FALSE, v |-> 0]
OrZero(f) == IF f.present /\ f.v # 0 THEN f.v ELSE 0

-----------------------------------------------------------------------------
(* The Date object: days and minutes since 1970-01-01T00:00Z in the proleptic
   Gregorian calendar.  Months are 0..11 as in getMonth(). *)

MinutesPerDay == 1440

\* Day number of the civil date y-m-d, m in 1..12.
DaysFromCivil(y, m, d) ==
    LET yy == IF m <= 2 THEN y - 1 ELSE y
        era == yy \div 400
        yoe == yy - era * 400
        mp == IF m > 2 THEN m - 3 ELSE m + 9
        doy == (153 * mp + 2) \div 5 + d - 1
        doe == yoe * 365 + yoe \div 4 - yoe \div 100 + doy
    IN  era * 146097 + doe - 719468

\* The civil date of a day number: [year, month (0..11), date].
CivilFromDays(z) ==
    LET zz == z + 719468
        era == zz \div 146097
        doe == zz - era * 146097
        yoe == (doe - doe \div 1460 + doe \div 36524 - doe \div 146096) \div 365
        doy == doe - (365 * yoe + yoe \div 4 - yoe \div 100)
        mp == (5 * doy + 2) \div 153
        d == doy - (153 * mp + 2) \div 5 + 1
        m == IF mp < 10 THEN mp + 3 ELSE mp - 9
    IN  [year |-> yoe + era * 400 + (IF m <= 2 THEN 1 ELSE 0), month |-> m - 1, date |-> d]

\* MakeDay of ECMAScript: the month may overflow into the next year and the date
\* may be 0 (the day before the 1st).
MakeDay(year, month, date) ==
    DaysFromCivil(year + month \div 12, (month % 12) + 1, 1) + date - 1

\* new Date(year, month, date): local midnight, as a UTC time value in minutes.
NewDateLocal(year, month, date, offset) ==
    MakeDay(year, month, date) * MinutesPerDay - offset

\* new Date("YYYY-MM-DD"): a date-only ISO string is UTC midnight.
NewDateISO(iso) == MakeDay(iso.y, iso.m - 1, iso.d) * MinutesPerDay

\* The local getters of a time value.
LocalDay(t, offset) == (t + offset) \div MinutesPerDay
getDate(t, offset) == CivilFromDays(LocalDay(t, offset)).date
getMonth(t, offset) == CivilFromDays(LocalDay(t, offset)).month
getFullYear(t, offset) == CivilFromDays(LocalDay(t, offset)).year
getDay(t, offset) == (LocalDay(t, offset) + 4) % 7

-----------------------------------------------------------------------------
(* renderCalendar *)

WeekdayNames == <<"Sun", "Mon", "Tue", "Wed", "Thu", "Fri", "Sat">>

HeaderCell(name) ==
    [cls |-> "calendar-header-day", text |-> name, day |-> 0, hasEvent |-> FALSE,
     markers |-> <<>>]
EmptyDayCell ==
    [cls |-> "calendar-day", text |-> "", day |-> 0, hasEvent |-> FALSE, markers |-> <<>>]

\* The marker of one event: its class, its label and its tooltip.
EventMarker(event) ==
    [cls |-> event.type, text |-> event.title,
     tooltip |-> [title |-> event.title, amount |-> NumberString(Abs(event.amount))]]

RECURSIVE MapMarkers(_)
MapMarkers(events) ==
    IF events = <<>> THEN <<>>
    ELSE <<EventMarker(Head(events))>> \o MapMarkers(Tail(events))

\* events.filter(...) of one day: the events whose parsed date has this local
\* date, month and year.
dayEvents(events, day, currentMonth, currentYear, offset) ==
    LET OnDay(event) ==
            LET eventDate == NewDateISO(event.date)
            IN  /\ getDate(eventDate, offset) = day
                /\ getMonth(eventDate, offset) = currentMonth
                /\ getFullYear(eventDate, offset) = currentYear
    IN  SelectSeq(events, OnDay)

DayCell(events, day, currentMonth, currentYear, offset) ==
    LET evs == dayEvents(events, day, currentMonth, currentYear, offset)
    IN  [cls |-> "calendar-day", text |-> "", day |-> day, hasEvent |-> Len(evs) > 0,
         markers |-> MapMarkers(evs)]

\* As ClearGrid, with the grid left as it was.
KeepGrid(grid) == grid

\* calendarGrid.innerHTML = ''
ClearGrid(grid) == <<>>

\* The grid after renderCalendar(events), from the grid before it.
renderCalendar(grid, events, clock, offset) ==
    LET currentMonth == clock.month
        currentYear == clock.year
        firstDay == getDay(NewDateLocal(currentYear, currentMonth, 1, offset), offset)
        daysInMonth == getDate(NewDateLocal(currentYear, currentMonth + 1, 0, offset), offset)
    IN  ClearGrid(grid)
        \o [i \in 1..7 |-> HeaderCell(WeekdayNames[i])]
        \o [i \in 1..firstDay |-> EmptyDayCell]
        \o [day \in 1..daysInMonth |->
                DayCell(events, day, currentMonth, currentYear, offset)]

\* The whole call: the month label, the grid, and the bookkeeping of `calls`
\* calls (2 when a first call threw in events.filter and the handler of the
\* exception called renderCalendar([]), which overwrites all the first one did).
RenderCalendar(events, calls) ==
    /\ currentMonthLabel' = [month |-> now.month, year |-> now.year]
    /\ calendarGrid' = renderCalendar(calendarGrid, events, now, tz)
    /\ calendarEvents' = events
    /\ calendarRenders' =
           IF calendarRenders + calls < MaxRenders THEN calendarRenders + calls
           ELSE MaxRenders

-----------------------------------------------------------------------------
(* Requests and responses *)

apiBase == "http://localhost:3000/api"
formApiBase == "http://localhost:5000/api"

Request(by, method, base, path) ==
    [by |-> by, method |-> method, base |-> base, path |-> path]
InitRun(r) == <<"init", r>>
ReloadCall(r) == <<"reload", r>>
FormPage == <<"form", 0>>

\* How an awaited request may settle: fetch rejects ("transport"), the status is
\* not 2xx ("status"), the body is not JSON ("badjson"), or a 2xx JSON body.
FailKinds == {"transport", "status", "badjson"}
Responses(bodies, dflt) ==
    {[kind |-> k, body |-> dflt] : k \in FailKinds}
        \cup {[kind |-> "json", body |-> b] : b \in bodies}

\* fetchData: throws unless the response is a 2xx with a JSON body.
fetchData(resp) == [threw |-> resp.kind # "json", value |-> resp.body]

\* testConnection: throws on the same three failures.
testConnection(resp) == [threw |-> resp.kind # "json"]

TestBodies == {[isNull |-> FALSE]}
TestResponses == Responses(TestBodies, [isNull |-> TRUE])

-----------------------------------------------------------------------------
(* Summary tiles *)

TileText(kind, prefix, num) == [kind |-> kind, prefix |-> prefix, num |-> num]
InitialText == TileText("initial", "", NumberString(0))
LoadingText == TileText("loading", "", NumberString(0))
CountText(n) == TileText("value", "", NumberString(n * 100))
MoneyText(x) == TileText("value", "$", toFixed(x))

TileIds == {"total-transactions", "total-income", "total-expenses", "net-amount"}

showLoading == [t \in TileIds |-> LoadingText]

\* As SummaryDefaults, with the tiles left as showLoading wrote them.
SummaryLeftLoading == showLoading

SummaryDefaults ==
    [t \in TileIds |-> IF t = "total-transactions" THEN CountText(0) ELSE MoneyText(0)]

SummaryBody(n, dep, wd, net) ==
    [isNull |-> FALSE, error |-> FALSE, totalTransactions |-> n, totalDeposits |-> dep,
     totalWithdrawals |-> wd, netAmount |-> net]
SummaryNull == [SummaryBody(Missing, Missing, Missing, Missing) EXCEPT !.isNull = TRUE]
SummaryError == [SummaryBody(Missing, Missing, Missing, Missing) EXCEPT !.error = TRUE]
SummaryBodies ==
    { SummaryBody(Field(3), Field(150000), Field(4250), Field(145750)),
      SummaryBody(Field(2), Field(1000), Field(5250), Field(-4250)),
      SummaryBody(Missing, Field(150000), Field(4250), Field(145750)),
      SummaryBody(Field(3), Missing, Field(4250), Field(-4250)),
      SummaryBody(Field(3), Field(150000), Missing, Field(150000)),
      SummaryBody(Field(3), Field(150000), Field(4250), Missing),
      SummaryBody(Missing, Missing, Missing, Missing),
      SummaryError, SummaryNull }
SummaryResponses == Responses(SummaryBodies, SummaryNull)
\* The summaries the overlapping runs of Spec receive.
FewSummaryBodies ==
    { SummaryBody(Field(3), Field(150000), Field(4250), Field(145750)),
      SummaryBody(Field(2), Field(1000), Field(5250), Field(-4250)) }
FewSummaryResponses == Responses(FewSummaryBodies, SummaryNull)

\* The tiles written from a summary object (lines 68-71).
SummaryTiles(summary) ==
    [t \in TileIds |->
        CASE t = "total-transactions" -> CountText(OrZero(summary.totalTransactions))
          [] t = "total-income" -> MoneyText(OrZero(summary.totalDeposits))
          [] t = "total-expenses" -> MoneyText(OrZero(summary.totalWithdrawals))
          [] OTHER -> MoneyText(OrZero(summary.netAmount))]

\* loadSummary: the tiles it leaves.  Reading summary.error of null throws.
loadSummary(resp) ==
    LET got == fetchData(resp)
        summary == got.value
    IN  IF got.threw \/ summary.isNull \/ summary.error
        THEN SummaryDefaults
        ELSE SummaryTiles(summary)

-----------------------------------------------------------------------------
(* Charts *)

CanvasIds == {"spending-chart", "trends-chart"}
NoChart == -1

\* An array field that may be absent; `f || []`.
NoList == [present |-> FALSE, v |-> <<>>]
OrEmpty(f) == IF f.present THEN f.v ELSE <<>>

ChartBody(labels, a, b) == [isNull |-> FALSE, labels |-> labels, a |-> a, b |-> b]
ChartNull == [ChartBody(NoList, NoList, NoList) EXCEPT !.isNull = TRUE]
\* /spending-by-category: {labels, data}
CategoryBodies ==
    { ChartBody(Field(<<"Food", "Rent">>), Field(<<4250, 90000>>), NoList),
      ChartNull }
\* /monthly-trends: {labels, income, expenses}
TrendsBodies ==
    { ChartBody(NoList, Field(<<150000>>), Field(<<4250>>)),
      ChartNull }
CategoryResponses == Responses(CategoryBodies, ChartNull)
TrendsResponses == Responses(TrendsBodies, ChartNull)

\* As DestroyExisting, with the release of the prior instance left out.
KeepExisting(instances, bound, canvasId) == instances

\* chart.destroy() of the instance bound to the canvas, if there is one.
DestroyExisting(instances, bound, canvasId) ==
    IF bound[canvasId] # NoChart
    THEN {IF c.canvas = canvasId /\ c.run = bound[canvasId]
          THEN [c EXCEPT !.destroyed = TRUE] ELSE c : c \in instances}
    ELSE instances

\* new Chart(ctx, config) by init run `run`.
NewChart(canvasId, run, type, labels, datasets) ==
    [canvas |-> canvasId, run |-> run, type |-> type, destroyed |-> FALSE,
     labels |-> labels, datasets |-> datasets]

\* createPieChart / createLineChart: [threw, charts, chartInstances] after the
\* call.  The prior instance is destroyed first; building the configuration then
\* reads data.labels, which throws when data is null.
createPieChart(instances, bound, canvasId, run, data) ==
    LET released == DestroyExisting(instances, bound, canvasId)
    IN  IF data.isNull
        THEN [threw |-> TRUE, charts |-> bound, chartInstances |-> released]
        ELSE [threw |-> FALSE,
              charts |-> [bound EXCEPT ![canvasId] = run],
              chartInstances |-> released \cup
                  {NewChart(canvasId, run, "pie", OrEmpty(data.labels),
                            <<OrEmpty(data.a)>>)}]

createLineChart(instances, bound, canvasId, run, data) ==
    LET released == DestroyExisting(instances, bound, canvasId)
    IN  IF data.isNull
        THEN [threw |-> TRUE, charts |-> bound, chartInstances |-> released]
        ELSE [threw |-> FALSE,
              charts |-> [bound EXCEPT ![canvasId] = run],
              chartInstances |-> released \cup
                  {NewChart(canvasId, run, "line", OrEmpty(data.labels),
                            <<OrEmpty(data.a), OrEmpty(data.b)>>)}]

-----------------------------------------------------------------------------
(* Calendar data and recent transactions *)

IsoDate(y, m, d) == [y |-> y, m |-> m, d |-> d]
CalendarEvent(date, title, amount, type) ==
    [date |-> date, title |-> title, amount |-> amount, type |-> type]

ArrayBody(items) == [isArray |-> TRUE, items |-> items]
NotArrayBody == [isArray |-> FALSE, items |-> <<>>]

\* /calendar-data as the dashboard receives it.
CalendarBodies ==
    { ArrayBody(<<CalendarEvent(IsoDate(2024, 3, 15), "Groceries", -4250, "expense")>>),
      NotArrayBody }
CalendarResponses == Responses(CalendarBodies, NotArrayBody)

\* loadCalendar: the events rendered last and the number of renderCalendar calls.
\* A body that is no array makes events.filter throw in the first day cell, and
\* the handler renders the empty calendar.
loadCalendar(resp) ==
    LET got == fetchData(resp)
    IN  IF got.threw THEN [events |-> <<>>, calls |-> 1]
        ELSE IF ~got.value.isArray THEN [events |-> <<>>, calls |-> 2]
        ELSE [events |-> got.value.items, calls |-> 1]

Transaction(store, category, date, type, amount) ==
    [store |-> store, category |-> category, date |-> date, type |-> type,
     amount |-> amount]

RecentBodies ==
    { ArrayBody(<<Transaction("Market", "Food", "2024-03-15", "expense", Field(-4250)),
                  Transaction("Employer", "Salary", "2024-03-01", "income", Field(150000))>>),
      ArrayBody(<<Transaction("", "", "", "expense", Missing)>>),
      NotArrayBody }
RecentResponses == Responses(RecentBodies, NotArrayBody)

OrText(s, dflt) == IF s = "" THEN dflt ELSE s

\* One .transaction-item (lines 283-291).
TransactionItem(transaction) ==
    [store |-> OrText(transaction.store, "Unknown"),
     category |-> OrText(transaction.category, "Uncategorized"),
     date |-> OrText(transaction.date, "N/A"),
     cls |-> transaction.type,
     sign |-> IF transaction.amount.present /\ transaction.amount.v >= 0 THEN "+" ELSE "",
     amount |-> TileText("value", "$", toFixed(Abs(OrZero(transaction.amount))))]

RECURSIVE MapItems(_)
MapItems(transactions) ==
    IF transactions = <<>> THEN <<>>
    ELSE <<TransactionItem(Head(transactions))>> \o MapItems(Tail(transactions))

Placeholder == [placeholder |-> TRUE, items |-> <<>>]

\* renderTransactions of an array.
renderTransactions(transactions) ==
    IF Len(transactions) = 0 THEN Placeholder
    ELSE [placeholder |-> FALSE, items |-> MapItems(transactions)]

\* loadRecentTransactions: the content of #recent-transactions it leaves.  A body
\* that is no array has no forEach: the call throws and the handler renders [].
loadRecentTransactions(resp) ==
    LET got == fetchData(resp)
    IN  IF got.threw \/ ~got.value.isArray THEN renderTransactions(<<>>)
        ELSE renderTransactions(got.value.items)

-----------------------------------------------------------------------------
(* FinanceTracker.init, one action per await *)

ConnectError == "Failed to load dashboard data. Please check if the server is running."

\* showError: a new .error div before the container's first child.
showError(divs, text) == <<text>> \o divs

\* As Issue, with the requests of the later steps issued along with it, not
\* awaited one after the other.
IssueEager(by, path) ==
    requests' = requests \cup
        {Request(by, "GET", apiBase, p) :
            p \in {path, "/summary", "/spending-by-category", "/monthly-trends",
                   "/calendar-data", "/recent-transactions"}}

\* fetch of `${this.apiBase}${endpoint}`: the request is issued.
Issue(by, path) == requests' = requests \cup {Request(by, "GET", apiBase, path)}

\* The run's part of the awaiting reloadData call ends with it.
EndRun(r) ==
    reloadPc' = IF r \in Reloads THEN [reloadPc EXCEPT ![r] = "done"] ELSE reloadPc

\* await this.testConnection() settles.
TestSettle(r, resp) ==
    /\ runPc[r] = "test"
    /\ IF testConnection(resp).threw
       THEN /\ banners' = showError(banners, ConnectError)
            /\ runPc' = [runPc EXCEPT ![r] = "failed"]
            /\ EndRun(r)
            /\ UNCHANGED requests
       ELSE /\ Issue(InitRun(r), "/summary")
            /\ runPc' = [runPc EXCEPT ![r] = "summary"]
            /\ UNCHANGED <<banners, reloadPc>>
    /\ UNCHANGED <<envVars, calVars, formVars, reloadResponse, tiles, charts,
                   chartInstances, recentTransactions>>

\* await this.loadSummary() settles; loadCharts issues its first request.
SummarySettle(r, resp) ==
    /\ runPc[r] = "summary"
    /\ tiles' = loadSummary(resp)
    /\ Issue(InitRun(r), "/spending-by-category")
    /\ runPc' = [runPc EXCEPT ![r] = "category"]
    /\ UNCHANGED <<envVars, calVars, formVars, reloadPc, reloadResponse, charts,
                   chartInstances, recentTransactions, banners>>

\* loadCharts, first await: the pie chart, then the trends request; any throw
\* leaves loadCharts, and loadCalendar issues its request.
CategorySettle(r, resp) ==
    /\ runPc[r] = "category"
    /\ LET got == fetchData(resp)
           made == createPieChart(chartInstances, charts, "spending-chart", r, got.value)
       IN  IF got.threw
           THEN /\ Issue(InitRun(r), "/calendar-data")
                /\ runPc' = [runPc EXCEPT ![r] = "calendar"]
                /\ UNCHANGED <<charts, chartInstances>>
           ELSE /\ charts' = made.charts
                /\ chartInstances' = made.chartInstances
                /\ IF made.threw
                   THEN /\ Issue(InitRun(r), "/calendar-data")
                        /\ runPc' = [runPc EXCEPT ![r] = "calendar"]
                   ELSE /\ Issue(InitRun(r), "/monthly-trends")
                        /\ runPc' = [runPc EXCEPT ![r] = "trends"]
    /\ UNCHANGED <<envVars, calVars, formVars, reloadPc, reloadResponse, tiles,
                   recentTransactions, banners>>

\* loadCharts, second await: the line chart; loadCalendar issues its request.
TrendsSettle(r, resp) ==
    /\ runPc[r] = "trends"
    /\ LET got == fetchData(resp)
           made == createLineChart(chartInstances, charts, "trends-chart", r, got.value)
       IN  IF got.threw
           THEN UNCHANGED <<charts, chartInstances>>
           ELSE /\ charts' = made.charts
                /\ chartInstances' = made.chartInstances
    /\ Issue(InitRun(r), "/calendar-data")
    /\ runPc' = [runPc EXCEPT ![r] = "calendar"]
    /\ UNCHANGED <<envVars, calVars, formVars, reloadPc, reloadResponse, tiles,
                   recentTransactions, banners>>

\* await this.loadCalendar() settles; loadRecentTransactions issues its request.
CalendarSettle(r, resp) ==
    /\ runPc[r] = "calendar"
    /\ LET done == loadCalendar(resp)
       IN  RenderCalendar(done.events, done.calls)
    /\ Issue(InitRun(r), "/recent-transactions")
    /\ runPc' = [runPc EXCEPT ![r] = "recent"]
    /\ UNCHANGED <<envVars, formVars, reloadPc, reloadResponse, tiles, charts,
                   chartInstances, recentTransactions, banners>>

\* await this.loadRecentTransactions() settles; init returns.
RecentSettle(r, resp) ==
    /\ runPc[r] = "recent"
    /\ recentTransactions' = loadRecentTransactions(resp)
    /\ runPc' = [runPc EXCEPT ![r] = "done"]
    /\ EndRun(r)
    /\ UNCHANGED <<envVars, calVars, formVars, requests, reloadResponse, tiles, charts,
                   chartInstances, banners>>

-----------------------------------------------------------------------------
(* FinanceTracker.reloadData *)

ReloadBody(success) == [isNull |-> FALSE, success |-> success]
ReloadNull == [isNull |-> TRUE, success |-> FALSE]
ReloadBodies == {ReloadBody(TRUE), ReloadBody(FALSE), ReloadNull}
ReloadResponses == Responses(ReloadBodies, ReloadNull)
NoResponse == [kind |-> "none", body |-> ReloadNull]

\* As reloadSucceeded, with the success field not looked at.
reloadCompleted(resp) == ~fetchData(resp).threw /\ ~resp.body.isNull

\* Whether reloadData goes on to init(): the request did not throw and
\* response.success is truthy (reading it of null throws).
reloadSucceeded(resp) ==
    /\ ~fetchData(resp).threw
    /\ ~resp.body.isNull
    /\ resp.body.success

\* reloadData is called: it issues GET /reload-data.
ReloadData(r) ==
    /\ page = "ready"
    /\ reloadPc[r] = "idle"
    /\ \A q \in Reloads : q < r => reloadPc[q] # "idle"
    /\ Issue(ReloadCall(r), "/reload-data")
    /\ reloadPc' = [reloadPc EXCEPT ![r] = "await"]
    /\ UNCHANGED <<envVars, calVars, formVars, runPc, reloadResponse, tiles, charts,
                   chartInstances, recentTransactions, banners>>

\* The reload request settles; on success init() runs to its first await.
ReloadSettle(r, resp) ==
    /\ reloadPc[r] = "await"
    /\ reloadResponse' = [reloadResponse EXCEPT ![r] = resp]
    /\ IF reloadSucceeded(resp)
       THEN /\ tiles' = showLoading
            /\ Issue(InitRun(r), "/test")
            /\ runPc' = [runPc EXCEPT ![r] = "test"]
            /\ reloadPc' = [reloadPc EXCEPT ![r] = "init"]
       ELSE /\ reloadPc' = [reloadPc EXCEPT ![r] = "done"]
            /\ UNCHANGED <<tiles, requests, runPc>>
    /\ UNCHANGED <<envVars, calVars, formVars, charts, chartInstances,
                   recentTransactions, banners>>

-----------------------------------------------------------------------------
(* The transaction form *)

\* A text is a sequence of tokens, each a run of white space (" ") or a word.
EmptyText == <<>>
NEW_CATEGORY == <<"NEW_CATEGORY">>

RECURSIVE TrimStart(_)
TrimStart(t) == IF t # <<>> /\ Head(t) = " " THEN TrimStart(Tail(t)) ELSE t
RECURSIVE TrimEnd(_)
TrimEnd(t) ==
    IF t # <<>> /\ t[Len(t)] = " " THEN TrimEnd(SubSeq(t, 1, Len(t) - 1)) ELSE t
trim(t) == TrimEnd(TrimStart(t))

NoDate == IsoDate(0, 0, 0)
\* setTodayDate: the local date, zero-padded, as the value of #date.
setTodayDate(clock) == IsoDate(clock.year, clock.month + 1, clock.date)

\* The form endpoints check no status: any response with a JSON body is read.
FormResponses(bodies, dflt) ==
    {[kind |-> k, body |-> dflt] : k \in {"transport", "badjson"}}
        \cup {[kind |-> k, body |-> b] : k \in {"json", "status"}, b \in bodies}

CategoriesBody(success, categories) ==
    [isNull |-> FALSE, success |-> success, categories |-> categories]
CategoriesNull == [CategoriesBody(FALSE, NoList) EXCEPT !.isNull = TRUE]
CategoriesBodies ==
    { CategoriesBody(TRUE, Field(<<<<"Food">>>>)),
      CategoriesBody(TRUE, NoList),
      CategoriesBody(FALSE, NoList),
      CategoriesNull }
CategoriesResponses == FormResponses(CategoriesBodies, CategoriesNull)

AppendBody(success, text) == [isNull |-> FALSE, success |-> success, message |-> text]
AppendNull == [AppendBody(FALSE, "") EXCEPT !.isNull = TRUE]
AppendBodies == {AppendBody(TRUE, "Added"), AppendBody(FALSE, "Invalid amount"), AppendNull}
AppendResponses == FormResponses(AppendBodies, AppendNull)

\* The timers a showMessage call leaves pending: one to add the "show" class and
\* one to remove it.  Adding and removing a class are idempotent, so pending
\* timers of one kind are kept as one.
AddTimers(pending) == [show |-> TRUE, hide |-> TRUE]

\* showMessage: the text and the class are set (which drops the "show" class);
\* one timeout adds "show", another removes it.
showMessage(text, type) ==
    /\ message' = [text |-> text, className |-> type, show |-> FALSE]
    /\ timers' = AddTimers(timers)

ShowTimer ==
    /\ timers.show
    /\ message' = [message EXCEPT !.show = TRUE]
    /\ timers' = [timers EXCEPT !.show = FALSE]
    /\ UNCHANGED <<envVars, dashVars, calVars, categoriesPc, categoryOptions, form,
                   submitBtn, submitPc, appendBody, lastSettled>>

HideTimer ==
    /\ timers.hide
    /\ message' = [message EXCEPT !.show = FALSE]
    /\ timers' = [timers EXCEPT !.hide = FALSE]
    /\ UNCHANGED <<envVars, dashVars, calVars, categoriesPc, categoryOptions, form,
                   submitBtn, submitPc, appendBody, lastSettled>>

\* loadCategories settles.  On data.success the option list is rebuilt (which
\* selects its first option); categories.forEach of a missing list throws after
\* the placeholder option is written.
CategoriesSettle(resp) ==
    /\ categoriesPc = "await"
    /\ categoriesPc' = "done"
    /\ LET data == resp.body
           parsed == resp.kind \in {"json", "status"} /\ ~data.isNull
       IN  IF parsed /\ data.success
           THEN /\ categoryOptions' =
                       IF data.categories.present
                       THEN <<EmptyText>> \o data.categories.v \o <<NEW_CATEGORY>>
                       ELSE <<EmptyText>>
                /\ form' = [form EXCEPT !.category = EmptyText]
           ELSE UNCHANGED <<categoryOptions, form>>
    /\ UNCHANGED <<envVars, dashVars, calVars, submitBtn, message, timers, submitPc,
                   appendBody, lastSettled>>

\* What prompt() returns: null when cancelled, else the text typed.
PromptResults ==
    { [cancelled |-> TRUE, text |-> EmptyText],
      [cancelled |-> FALSE, text |-> <<" ">>],
      [cancelled |-> FALSE, text |-> <<" ", "Rent", " ">>],
      [cancelled |-> FALSE, text |-> <<"NEW_CATEGORY">>] }

\* this.insertBefore(option, this.lastElementChild)
InsertBeforeLast(options, value) ==
    SubSeq(options, 1, Len(options) - 1) \o <<value>> \o <<options[Len(options)]>>

\* The user picks option i; the change handler runs.
CategoryChange(i, answer) ==
    /\ page = "ready"
    /\ i \in 1..Len(categoryOptions)
    /\ IF categoryOptions[i] = NEW_CATEGORY
       THEN IF ~answer.cancelled /\ trim(answer.text) # EmptyText
            THEN /\ Len(categoryOptions) < MaxOptions
                 /\ categoryOptions' = InsertBeforeLast(categoryOptions, trim(answer.text))
                 /\ form' = [form EXCEPT !.category = trim(answer.text)]
            ELSE /\ form' = [form EXCEPT !.category = EmptyText]
                 /\ UNCHANGED categoryOptions
       ELSE /\ form' = [form EXCEPT !.category = categoryOptions[i]]
            /\ UNCHANGED categoryOptions
    /\ UNCHANGED <<envVars, dashVars, calVars, categoriesPc, submitBtn, message, timers,
                   submitPc, appendBody, lastSettled>>

Titles == {EmptyText, <<" ", "Lunch">>}
Amounts == {"", "-42.50"}
Dates == {IsoDate(2024, 3, 1)}

\* The user edits the title, the amount or the date.
EditTitle(v) ==
    /\ page = "ready"
    /\ form' = [form EXCEPT !.title = v]
    /\ UNCHANGED <<envVars, dashVars, calVars, categoriesPc, categoryOptions, submitBtn,
                   message, timers, submitPc, appendBody, lastSettled>>
EditAmount(v) ==
    /\ page = "ready"
    /\ form' = [form EXCEPT !.amount = v]
    /\ UNCHANGED <<envVars, dashVars, calVars, categoriesPc, categoryOptions, submitBtn,
                   message, timers, submitPc, appendBody, lastSettled>>
EditDate(v) ==
    /\ page = "ready"
    /\ form' = [form EXCEPT !.date = v]
    /\ UNCHANGED <<envVars, dashVars, calVars, categoriesPc, categoryOptions, submitBtn,
                   message, timers, submitPc, appendBody, lastSettled>>

BusyLabel == "<span class=\"loading\"></span>Adding..."
NormalLabel == "Add Transaction"

\* formData of the submit handler.
formData(f) ==
    [title |-> trim(f.title), category |-> f.category, amount |-> f.amount,
     date |-> f.date]

\* As validCategory, with the sentinel let through.
anyCategory(data) == TRUE

\* Whether the handler goes on to the request.
validCategory(data) == data.category # NEW_CATEGORY

\* The form is submitted.  The browser submits nothing through a disabled submit
\* button, so no submit event arrives while a request is in flight.
Submit ==
    /\ page = "ready"
    /\ ~submitBtn.disabled
    /\ IF ~validCategory(formData(form))
       THEN /\ showMessage("Please select a valid category", "error")
            /\ UNCHANGED <<submitBtn, requests, appendBody, submitPc>>
       ELSE /\ submitBtn' = [disabled |-> TRUE, innerHTML |-> BusyLabel]
            /\ requests' = requests \cup {Request(FormPage, "POST", formApiBase, "/append")}
            /\ appendBody' = formData(form)
            /\ submitPc' = "await"
            /\ UNCHANGED <<message, timers>>
    /\ UNCHANGED <<envVars, calVars, categoriesPc, categoryOptions, form, lastSettled,
                   runPc, reloadPc, reloadResponse, tiles, charts, chartInstances,
                   recentTransactions, banners>>

\* transactionForm.reset() then setTodayDate().
resetForm(f, options, clock) ==
    [title |-> EmptyText,
     category |-> IF options = <<>> THEN EmptyText ELSE options[1],
     amount |-> "",
     date |-> setTodayDate(clock)]

\* As restoreButton, with the button left as the request found it.
keepButton(btn) == btn

\* The button after the finally block.
restoreButton(btn) == [disabled |-> FALSE, innerHTML |-> NormalLabel]

\* The POST settles: try, catch and finally of the submit handler.
AppendSettle(resp) ==
    /\ submitPc = "await"
    /\ LET data == resp.body
           parsed == resp.kind \in {"json", "status"} /\ ~data.isNull
       IN  IF parsed
           THEN IF data.success
                THEN /\ showMessage(data.message, "success")
                     /\ form' = resetForm(form, categoryOptions, now)
                     /\ lastSettled' = "success"
                ELSE /\ showMessage(data.message, "error")
                     /\ lastSettled' = "failure"
                     /\ UNCHANGED form
           ELSE /\ showMessage("Network error. Please check your connection.", "error")
                /\ lastSettled' = resp.kind
                /\ UNCHANGED form
    /\ submitBtn' = restoreButton(submitBtn)
    /\ submitPc' = "idle"
    /\ UNCHANGED <<envVars, dashVars, calVars, categoriesPc, categoryOptions, appendBody>>

-----------------------------------------------------------------------------
(* Page load *)

\* The DOMContentLoaded handler: new FinanceTracker() (init runs to its first
\* await), setTodayDate(), loadCategories() (to its await).
DOMContentLoaded ==
    /\ page = "loading"
    /\ page' = "ready"
    /\ tiles' = showLoading
    /\ requests' = requests \cup
           { Request(InitRun(0), "GET", apiBase, "/test"),
             Request(FormPage, "GET", formApiBase, "/categories") }
    /\ runPc' = [runPc EXCEPT ![0] = "test"]
    /\ form' = [form EXCEPT !.date = setTodayDate(now)]
    /\ categoriesPc' = "await"
    /\ UNCHANGED <<now, tz, calVars, reloadPc, reloadResponse, charts, chartInstances,
                   recentTransactions, banners, categoryOptions, submitBtn, message,
                   timers, submitPc, appendBody, lastSettled>>

\* The page as parsed, before any script has run.
InitPage ==
    /\ page = "loading"
    /\ requests = {}
    /\ runPc = [r \in Runs |-> "idle"]
    /\ reloadPc = [r \in Reloads |-> "idle"]
    /\ reloadResponse = [r \in Reloads |-> NoResponse]
    /\ tiles = [t \in TileIds |-> InitialText]
    /\ charts = [c \in CanvasIds |-> NoChart]
    /\ chartInstances = {}
    /\ calendarGrid = <<>>
    /\ calendarEvents = <<>>
    /\ calendarRenders = 0
    /\ currentMonthLabel = [month |-> -1, year |-> 0]
    /\ recentTransactions = [placeholder |-> FALSE, items |-> <<>>]
    /\ banners = <<>>
    /\ categoriesPc = "idle"
    /\ categoryOptions = <<EmptyText>>
    /\ form = [title |-> EmptyText, category |-> EmptyText, amount |-> "", date |-> NoDate]
    /\ submitBtn = [disabled |-> FALSE, innerHTML |-> NormalLabel]
    /\ message = [text |-> "", className |-> "", show |-> FALSE]
    /\ timers = [show |-> FALSE, hide |-> FALSE]
    /\ submitPc = "idle"
    /\ appendBody = formData([title |-> EmptyText, category |-> EmptyText, amount |-> "",
                              date |-> NoDate])
    /\ lastSettled = "none"

Clock(y, m, d) == [year |-> y, month |-> m, date |-> d]

Init ==
    /\ InitPage
    /\ now = Clock(2024, 2, 15)
    /\ tz = -300

DashNext ==
    \/ \E r \in Runs :
        \/ \E resp \in TestResponses : TestSettle(r, resp)
        \/ \E resp \in FewSummaryResponses : SummarySettle(r, resp)
        \/ \E resp \in CategoryResponses : CategorySettle(r, resp)
        \/ \E resp \in TrendsResponses : TrendsSettle(r, resp)
        \/ \E resp \in CalendarResponses : CalendarSettle(r, resp)
        \/ \E resp \in RecentResponses : RecentSettle(r, resp)
    \/ \E r \in Reloads :
        \/ ReloadData(r)
        \/ \E resp \in ReloadResponses : ReloadSettle(r, resp)

FormNext ==
    \/ \E resp \in CategoriesResponses : CategoriesSettle(resp)
    \/ \E i \in 1..MaxOptions, answer \in PromptResults : CategoryChange(i, answer)
    \/ \E v \in Titles : EditTitle(v)
    \/ \E v \in Amounts : EditAmount(v)
    \/ \E v \in Dates : EditDate(v)
    \/ Submit
    \/ \E resp \in AppendResponses : AppendSettle(resp)
    \/ ShowTimer
    \/ HideTimer

Next == DOMContentLoaded \/ DashNext

Spec == Init /\ [][Next]_vars

NextForm == DOMContentLoaded \/ FormNext

SpecForm == Init /\ [][NextForm]_vars

\* The page load alone: the constructor's init run, with every modelled
\* /summary response.
LoadNext ==
    \/ \E resp \in TestResponses : TestSettle(0, resp)
    \/ \E resp \in SummaryResponses : SummarySettle(0, resp)
    \/ \E resp \in CategoryResponses : CategorySettle(0, resp)
    \/ \E resp \in TrendsResponses : TrendsSettle(0, resp)
    \/ \E resp \in CalendarResponses : CalendarSettle(0, resp)
    \/ \E resp \in RecentResponses : RecentSettle(0, resp)

NextLoad == DOMContentLoaded \/ LoadNext

SpecLoad == Init /\ [][NextLoad]_vars

-----------------------------------------------------------------------------
(* renderCalendar on its own: any month, any offset, any events *)

CalClocks ==
    { Clock(2024, 1, 15), Clock(2023, 1, 28), Clock(2024, 2, 15), Clock(2023, 11, 31),
      Clock(2024, 0, 1), Clock(2100, 1, 1), Clock(2000, 1, 29), Clock(2024, 8, 1) }
TzOffsets == {-300, 0, 60, 840}
CalEventPool ==
    { CalendarEvent(IsoDate(2024, 3, 15), "e1", -4250, "expense"),
      CalendarEvent(IsoDate(2024, 3, 1), "e2", 1999, "income"),
      CalendarEvent(IsoDate(2024, 2, 29), "e3", -100, "expense"),
      CalendarEvent(IsoDate(2024, 1, 1), "e4", 150000, "income"),
      CalendarEvent(IsoDate(2023, 12, 31), "e5", -5, "expense") }
CalEventLists ==
    {<<>>} \cup {<<e>> : e \in CalEventPool}
           \cup {p \in CalEventPool \X CalEventPool : p[1] # p[2]}

InitCal ==
    /\ InitPage
    /\ now \in CalClocks
    /\ tz \in TzOffsets

\* renderCalendar(events) is called.
RenderCalendarCall(events) ==
    /\ RenderCalendar(events, 1)
    /\ UNCHANGED <<envVars, dashVars, formVars>>

NextCal == \E events \in CalEventLists : RenderCalendarCall(events)

SpecCal == InitCal /\ [][NextCal]_vars

-----------------------------------------------------------------------------
(* Properties *)

ViewPaths ==
    {"/summary", "/spending-by-category", "/monthly-trends", "/calendar-data",
     "/recent-transactions"}

Requested(r, path) == \E q \in requests : q.by = InitRun(r) /\ q.path = path

\* C1: a failure in one view never blocks another: an init run whose
\* connectivity test succeeded and which has returned has fetched every one of
\* the five views, and has shown no page-level error.
C1_NoViewBlocksAnother ==
    \A r \in Runs :
        runPc[r] = "done" => (\A path \in ViewPaths : Requested(r, path))

\* C2: an init run whose connectivity test failed has requested no view, and
\* whatever the number of such runs exactly one error banner is in the container.
C2_SingleBanner ==
    \A r \in Runs :
        runPc[r] = "failed" =>
            /\ \A path \in ViewPaths : ~Requested(r, path)
            /\ Len(banners) = 1

LiveOn(canvasId) == {c \in chartInstances : c.canvas = canvasId /\ ~c.destroyed}

\* C3: at most one chart instance that was created and not destroyed is bound to
\* a canvas, and it is the one this.charts holds for that canvas: every earlier
\* instance was destroyed before the new one was created.
C3_OneLiveChartPerCanvas ==
    \A canvasId \in CanvasIds :
        /\ Cardinality(LiveOn(canvasId)) <= 1
        /\ \A c \in LiveOn(canvasId) : charts[canvasId] = c.run

\* C3 witness: a canvas whose earlier instance was destroyed and which has a
\* newer live instance.
C3_Witness ==
    \E canvasId \in CanvasIds :
        /\ \E c \in chartInstances : c.canvas = canvasId /\ c.destroyed
        /\ LiveOn(canvasId) # {}

DayCells == {k \in DOMAIN calendarGrid : calendarGrid[k].day > 0}
Marked(k, event) ==
    \E j \in DOMAIN calendarGrid[k].markers : calendarGrid[k].markers[j].text = event.title

\* C4: an event dated Y-M-D is marked in the cell of day D when the displayed
\* month is M/Y, and in no other cell and in no other month, whatever the
\* viewer's offset from UTC.
C4_EventOnItsOwnDay ==
    calendarRenders > 0 =>
        \A i \in DOMAIN calendarEvents :
            \A k \in DayCells :
                Marked(k, calendarEvents[i]) <=>
                    /\ calendarGrid[k].day = calendarEvents[i].date.d
                    /\ now.month + 1 = calendarEvents[i].date.m
                    /\ now.year = calendarEvents[i].date.y

\* The Gregorian rules, stated apart from the Date arithmetic of the model.
IsLeapYear(y) == (y % 4 = 0 /\ y % 100 # 0) \/ y % 400 = 0
GregorianDaysInMonth(y, m) ==
    IF m = 1 THEN (IF IsLeapYear(y) THEN 29 ELSE 28)
    ELSE IF m \in {3, 5, 8, 10} THEN 30 ELSE 31
\* Weekday of the 1st of month m (0..11) of year y, Sunday = 0.
GregorianFirstWeekday(y, m) ==
    LET t == <<0, 3, 2, 5, 0, 3, 5, 1, 4, 6, 2, 4>>
        yy == IF m < 2 THEN y - 1 ELSE y
    IN  (yy + yy \div 4 - yy \div 100 + yy \div 400 + t[m + 1] + 1) % 7

\* C5: after the 7 weekday headers the grid holds exactly firstWeekday blank
\* cells and then the day cells 1..daysInMonth in order, by the Gregorian
\* rules; a further call replaces the grid.
C5_GridShape ==
    calendarRenders > 0 =>
        LET fw == GregorianFirstWeekday(now.year, now.month)
            dim == GregorianDaysInMonth(now.year, now.month)
        IN  /\ Len(calendarGrid) = 7 + fw + dim
            /\ \A k \in 1..7 : /\ calendarGrid[k].cls = "calendar-header-day"
                               /\ calendarGrid[k].text = WeekdayNames[k]
            /\ \A k \in 1..fw : calendarGrid[7 + k] = EmptyDayCell
            /\ \A d \in 1..dim : /\ calendarGrid[7 + fw + d].cls = "calendar-day"
                                 /\ calendarGrid[7 + fw + d].day = d

\* C5 witness: February of a leap year, which starts on a Thursday, rendered a
\* second time.
C5_Witness ==
    /\ calendarRenders >= 2
    /\ now.year = 2024 /\ now.month = 1
    /\ Len(calendarGrid) = 7 + 4 + 29

\* C6: a submission with the category at NEW_CATEGORY shows the error message,
\* issues no request, leaves the submit control and the form fields as they were.
C6_SentinelRejected ==
    [][(Submit /\ form.category = NEW_CATEGORY) =>
           /\ message'.text = "Please select a valid category"
           /\ message'.className = "error"
           /\ requests' = requests
           /\ submitPc' = "idle"
           /\ submitBtn' = submitBtn /\ ~submitBtn'.disabled
           /\ form' = form]_vars

\* C6 witness: the rejection has happened with the sentinel still selected.
C6_Witness ==
    /\ form.category = NEW_CATEGORY
    /\ message.text = "Please select a valid category"
    /\ ~submitBtn.disabled
    /\ submitPc = "idle"

AppendRequest == Request(FormPage, "POST", formApiBase, "/append")

\* C7: while the POST is in flight the submit control is disabled and shows the
\* busy label; once a request has settled, whatever the outcome, the control is
\* enabled with its normal label.
C7_ButtonReenabled ==
    /\ submitPc = "await" =>
           /\ submitBtn.disabled /\ submitBtn.innerHTML = BusyLabel
           /\ AppendRequest \in requests
    /\ (submitPc = "idle" /\ lastSettled # "none") =>
           /\ ~submitBtn.disabled /\ submitBtn.innerHTML = NormalLabel

\* C7 witness: a request that ended in an unparsable response has left the
\* control enabled.
C7_Witness ==
    /\ lastSettled = "badjson"
    /\ submitPc = "idle"
    /\ ~submitBtn.disabled

MoneyTiles == {"total-income", "total-expenses", "net-amount"}

\* C8: no displayed monetary value is negative: the three money tiles, the
\* amount of each recent transaction and the amount of each calendar tooltip.
C8_AmountsNonNegative ==
    /\ \A t \in MoneyTiles : ~tiles[t].num.minus
    /\ \A i \in DOMAIN recentTransactions.items :
           ~recentTransactions.items[i].amount.num.minus
    /\ \A k \in DOMAIN calendarGrid :
           \A j \in DOMAIN calendarGrid[k].markers :
               ~calendarGrid[k].markers[j].tooltip.amount.minus

ReloadSettled(r) == reloadPc[r] \notin {"idle", "await"}

\* C9 as claimed: every reload whose request has completed has started an
\* init run.
C9_EveryReloadReinitializes ==
    \A r \in Reloads : ReloadSettled(r) => runPc[r] # "idle"

\* C9 as amended: reloadData first issues GET /reload-data; its init run is not
\* started before that request has completed, and is started exactly when the
\* request completed with a 2xx JSON body whose success field is truthy.
C9_ReinitializesOnSuccess ==
    \A r \in Reloads :
        /\ runPc[r] # "idle" =>
               /\ ReloadSettled(r)
               /\ Request(ReloadCall(r), "GET", apiBase, "/reload-data") \in requests
               /\ Requested(r, "/test")
        /\ ReloadSettled(r) =>
               (runPc[r] # "idle" <=>
                    /\ reloadResponse[r].kind = "json"
                    /\ ~reloadResponse[r].body.isNull
                    /\ reloadResponse[r].body.success)

\* C9 witness: a reload that succeeded and whose init run has run to its end.
C9_Witness ==
    \E r \in Reloads :
        /\ reloadPc[r] = "done"
        /\ runPc[r] = "done"
        /\ \A path \in ViewPaths : Requested(r, path)

\* C10: every request the page issues goes to one and the same API base.
C10_OneApiBase ==
    \A q1 \in requests : \A q2 \in requests : q1.base = q2.base

ZeroCount ==
    [kind |-> "value", prefix |-> "",
     num |-> [minus |-> FALSE, whole |-> 0, frac |-> 0, decimals |-> 0]]
ZeroMoney ==
    [kind |-> "value", prefix |-> "$",
     num |-> [minus |-> FALSE, whole |-> 0, frac |-> 0, decimals |-> 2]]
ZeroDefault(t) == IF t = "total-transactions" THEN ZeroCount ELSE ZeroMoney
\* The field of the /summary object a tile shows.
TileField(summary, t) ==
    CASE t = "total-transactions" -> summary.totalTransactions
      [] t = "total-income" -> summary.totalDeposits
      [] t = "total-expenses" -> summary.totalWithdrawals
      [] OTHER -> summary.netAmount
SummaryFailed(resp) == resp.kind # "json" \/ resp.body.isNull \/ resp.body.error

\* C11: when loadSummary completes, whatever /summary answered, a tile whose
\* field is missing shows its zero default ("0", "$0.00"), all four tiles show
\* their zero defaults when the fetch failed or the response carries an error
\* field, and no tile is left at "Loading...".
C11_SummaryDefaults ==
    [][\A resp \in SummaryResponses :
          SummarySettle(0, resp) =>
              /\ \A t \in TileIds : tiles'[t].kind # "loading"
              /\ SummaryFailed(resp) => \A t \in TileIds : tiles'[t] = ZeroDefault(t)
              /\ ~SummaryFailed(resp) =>
                     \A t \in TileIds :
                         ~TileField(resp.body, t).present => tiles'[t] = ZeroDefault(t)]_vars

\* C11 witness: loadSummary has completed on a response with the deposits
\* missing and the other fields present.
C11_Witness ==
    /\ runPc[0] = "category"
    /\ tiles["total-income"] = ZeroMoney
    /\ tiles["total-transactions"] # ZeroCount
    /\ tiles["net-amount"].num.minus

\* The place of a request, and of an await, in the order of init's steps.
StepOf(path) ==
    CASE path = "/test" -> 1
      [] path = "/summary" -> 2
      [] path = "/spending-by-category" -> 3
      [] path = "/monthly-trends" -> 4
      [] path = "/calendar-data" -> 5
      [] path = "/recent-transactions" -> 6
      [] OTHER -> 0
PcStep(pc) ==
    CASE pc = "idle" -> 0
      [] pc = "test" -> 1
      [] pc = "summary" -> 2
      [] pc = "category" -> 3
      [] pc = "trends" -> 4
      [] pc = "calendar" -> 5
      [] pc = "recent" -> 6
      [] OTHER -> 7
RequestsOf(r) == {q \in requests : q.by = InitRun(r)}
\* The requests of run r that have not settled: those of the step it is
\* suspended at, or of a later one.
InFlight(r) == {q \in RequestsOf(r) : StepOf(q.path) >= PcStep(runPc[r])}

\* C12: within one init run the steps go in the order connectivity test,
\* summary, category chart, trend chart, calendar, recent transactions: no
\* request is issued before the run has reached its step, so at most one
\* request of the run is in flight; every earlier step (the trend chart apart,
\* which a failed category chart skips) was requested before it; and the
\* calendar and the transaction list are rendered before the run moves on.
C12_StepsSequential ==
    \A r \in Runs :
        /\ \A q \in RequestsOf(r) : StepOf(q.path) <= PcStep(runPc[r])
        /\ Cardinality(InFlight(r)) <= 1
        /\ runPc[r] \in {"test", "summary", "category", "trends", "calendar", "recent"}
               => Cardinality(InFlight(r)) = 1
        /\ \A q \in RequestsOf(r) :
               \A path \in ViewPaths \cup {"/test"} :
                   (StepOf(path) < StepOf(q.path) /\ path # "/monthly-trends")
                       => Requested(r, path)
        /\ Requested(r, "/recent-transactions") => calendarRenders > 0
        /\ runPc[r] = "done" =>
               (recentTransactions.placeholder \/ recentTransactions.items # <<>>)

\* C12 witness: a run that went through both charts and the calendar is
\* suspended at its last request, the only one it has in flight.
C12_Witness ==
    /\ runPc[0] = "recent"
    /\ Requested(0, "/monthly-trends")
    /\ InFlight(0) = {Request(InitRun(0), "GET", apiBase, "/recent-transactions")}
    /\ calendarRenders > 0

====
